---- MODULE Spec2Model ----
(***************************************************************************)
(* Workout records of the fitness tracker: the Workout document methods    *)
(* (backend/models), the WorkoutService that loads, mutates and saves the  *)
(* documents, and the WorkoutController handlers behind /api/workouts.     *)
(*                                                                         *)
(* Representation.  Times are whole seconds.  A field that JavaScript      *)
(* leaves undefined holds Undefined (-1), which no validator accepts as a  *)
(* value.  Intensity is held in tenths (10.0 is 100); all arithmetic is    *)
(* exact rational arithmetic on numerator / denominator pairs.             *)
(*                                                                         *)
(* workouts is the collection (record id -> document), nextId the next     *)
(* free id, now the server clock, resp the response last sent, and calls   *)
(* the service calls in flight between their awaits.  catalog is the       *)
(* Exercise collection in insertion order, and database the Database       *)
(* singleton with the number of connections mongoose was asked to open.    *)
(***************************************************************************)
EXTENDS Integers, Sequences, FiniteSets, TLC

VARIABLES workouts, nextId, now, resp, calls, catalog, database

vars == <<workouts, nextId, now, resp, calls, catalog, database>>

(***************************************************************************)
(* Bounds of the model                                                     *)
(***************************************************************************)
MaxRecords == 1
HttpMaxExercises == 1
HttpMaxSets == 1
MaxTicks == 1
MaxExercises == 2
MaxSets == 2
MaxIntensitySets == 8
MaxRemoveSets == 4
MaxQueryRecords == 2
ClockStart == 30
MaxElapsed == 125
MaxOpened == 3
MaxCatalog == 3
ClockMaxExercises == 1
ClockMaxSets == 2

(***************************************************************************)
(* Program constants                                                       *)
(***************************************************************************)
Undefined == -1
InProgress == "in-progress"
Completed == "completed"
StatusEnum == {InProgress, Completed}
SecondsPerMinute == 60
SecondsPerDay == 86400
WeightNorm == 1000
MaxIntensity == 100

Users == {"alice", "bob"}
ExerciseIds == {"e1", "e2"}

(***************************************************************************)
(* Helpers on sequences and numbers                                        *)
(***************************************************************************)
Min(a, b) == IF a < b THEN a ELSE b

RECURSIVE SumSeq(_)
SumSeq(s) == IF s = << >> THEN 0 ELSE Head(s) + SumSeq(Tail(s))

RECURSIVE Flatten(_)
Flatten(ss) == IF ss = << >> THEN << >> ELSE Head(ss) \o Flatten(Tail(ss))

RemoveAt(s, i) == [k \in 1..(Len(s) - 1) |-> IF k < i THEN s[k] ELSE s[k + 1]]

\* Math.round of the non-negative rational num/den: nearest integer, a tie
\* going to the larger one.
MathRound(num, den) == (2 * num + den) \div (2 * den)

(***************************************************************************)
(* Workout document methods (models/Workout)                               *)
(***************************************************************************)
AllSets(doc) == Flatten([i \in 1..Len(doc.exercises) |-> doc.exercises[i].sets])

DoubleBelowTie ==
  {<<1, 8, 25>>, <<1, 8, 350>>, <<3, 8, 25>>, <<3, 8, 125>>, <<3, 8, 150>>,
   <<3, 8, 175>>, <<3, 8, 250>>, <<3, 8, 475>>, <<3, 8, 600>>, <<3, 8, 700>>,
   <<3, 8, 725>>, <<3, 8, 825>>, <<3, 8, 850>>, <<3, 8, 925>>, <<5, 8, 475>>,
   <<5, 8, 550>>, <<7, 8, 175>>, <<7, 8, 700>>, <<7, 8, 725>>}

\* calculateIntensity, without the missing guard of the zero-set case
calculateIntensityNoGuard(doc) ==
  LET sets == AllSets(doc)
      totalSets == Len(sets)
      totalWeight == SumSeq([k \in 1..Len(sets) |-> sets[k].weight * sets[k].reps])
      completedSets == Cardinality({k \in 1..Len(sets) : sets[k].completed})
      rateNum == completedSets
      rateDen == IF totalSets > 0 THEN totalSets ELSE 0
      wfNum == Min(totalWeight, WeightNorm)
      num == (rateNum * 6 * WeightNorm + wfNum * 4 * rateDen) * 10
      den == 10 * rateDen * WeightNorm
  IN IF den = 0 THEN Undefined
     ELSE IF <<completedSets, totalSets, wfNum>> \in DoubleBelowTie
     THEN Min(MathRound(num * 10, den) - 1, MaxIntensity)
     ELSE Min(MathRound(num * 10, den), MaxIntensity)

\* calculateIntensity taking the larger of totalWeight / 1000 and 1
calculateIntensityMaxFactor(doc) ==
  LET sets == AllSets(doc)
      totalSets == Len(sets)
      totalWeight == SumSeq([k \in 1..Len(sets) |-> sets[k].weight * sets[k].reps])
      completedSets == Cardinality({k \in 1..Len(sets) : sets[k].completed})
      rateNum == IF totalSets > 0 THEN completedSets ELSE 0
      rateDen == IF totalSets > 0 THEN totalSets ELSE 1
      wfNum == IF totalWeight > WeightNorm THEN totalWeight ELSE WeightNorm
      num == (rateNum * 6 * WeightNorm + wfNum * 4 * rateDen) * 10
      den == 10 * rateDen * WeightNorm
  IN Min(MathRound(num * 10, den), MaxIntensity)

\* The result is in tenths.  completionRate = rateNum/rateDen,
\* weightFactor = wfNum/WeightNorm, intensity = num/den.  The code evaluates
\* the expression in IEEE-754 doubles: 0.6 and 0.4 are not representable,
\* and where the exact value of intensity * 10 is a half-integer the double
\* it computes can lie just below it, so that Math.round goes down (3 of 8
\* sets completed with volume 250: 0.375 * 0.6 = 0.22499999999999998, the
\* sum is 0.32499999999999996, and Math.round(32.49999999999999) = 32).
\* DoubleBelowTie lists those cases <<completedSets, totalSets, volume>> among
\* the records of at most 10 sets whose volume is a multiple of 25 (the
\* volumes the specifications below produce); everywhere else on that
\* domain the double rounds as the exact value does.
calculateIntensity(doc) ==
  LET sets == AllSets(doc)
      totalSets == Len(sets)
      totalWeight == SumSeq([k \in 1..Len(sets) |-> sets[k].weight * sets[k].reps])
      completedSets == Cardinality({k \in 1..Len(sets) : sets[k].completed})
      rateNum == IF totalSets > 0 THEN completedSets ELSE 0
      rateDen == IF totalSets > 0 THEN totalSets ELSE 1
      wfNum == Min(totalWeight, WeightNorm)
      num == (rateNum * 6 * WeightNorm + wfNum * 4 * rateDen) * 10
      den == 10 * rateDen * WeightNorm
      rounded == IF <<completedSets, totalSets, wfNum>> \in DoubleBelowTie
                 THEN MathRound(num * 10, den) - 1
                 ELSE MathRound(num * 10, den)
  IN Min(rounded, MaxIntensity)

\* The set validators without the minimum of reps
ValidSetAnyReps(s) == s.setNumber >= 1 /\ s.weight >= 0

\* Schema validation run by save(): setSchema and workoutSchema constraints.
ValidSet(s) == s.setNumber >= 1 /\ s.weight >= 0 /\ s.reps >= 1

ValidDoc(doc) ==
  /\ doc.username # ""
  /\ doc.status \in StatusEnum
  /\ doc.duration = Undefined \/ doc.duration >= 0
  /\ doc.intensity = Undefined \/ (doc.intensity >= 0 /\ doc.intensity <= MaxIntensity)
  /\ \A i \in 1..Len(doc.exercises) :
       \A j \in 1..Len(doc.exercises[i].sets) : ValidSet(doc.exercises[i].sets[j])

\* A method call on a loaded document yields the document to persist, or
\* throws (ok = FALSE) and persists nothing.
Saved(doc) == [ok |-> ValidDoc(doc), doc |-> doc]
Thrown(doc) == [ok |-> FALSE, doc |-> doc]

\* completeWorkout dropping the fraction of the elapsed minutes
completeWorkoutTruncating(doc, t) ==
  LET d1 == [doc EXCEPT !.endTime = t]
      d2 == [d1 EXCEPT !.duration = (d1.endTime - d1.startTime) \div SecondsPerMinute]
      d3 == [d2 EXCEPT !.intensity = calculateIntensity(d2)]
  IN Saved([d3 EXCEPT !.status = Completed])

\* completeWorkout keeping the completion data a completed record has
completeWorkoutOnce(doc, t) ==
  LET d1 == [doc EXCEPT !.endTime = t]
      d2 == [d1 EXCEPT !.duration = MathRound(d1.endTime - d1.startTime, SecondsPerMinute)]
      d3 == [d2 EXCEPT !.intensity = calculateIntensity(d2)]
  IN IF doc.status = Completed THEN Saved(doc) ELSE Saved([d3 EXCEPT !.status = Completed])

completeWorkout(doc, t) ==
  LET d1 == [doc EXCEPT !.endTime = t]
      d2 == [d1 EXCEPT !.duration = MathRound(d1.endTime - d1.startTime, SecondsPerMinute)]
      d3 == [d2 EXCEPT !.intensity = calculateIntensity(d2)]
  IN Saved([d3 EXCEPT !.status = Completed])

\* addExercise putting the new log in front (unshift for push)
addExercisePrepending(doc, exerciseId) ==
  Saved([doc EXCEPT !.exercises = <<[exercise |-> exerciseId, sets |-> << >>]>> \o @])

addExercise(doc, exerciseId) ==
  Saved([doc EXCEPT !.exercises = Append(@, [exercise |-> exerciseId, sets |-> << >>])])

\* addSet recomputing the intensity of a completed record
addSetRecomputing(doc, exerciseIndex, weight, reps) ==
  IF exerciseIndex < 0 \/ exerciseIndex >= Len(doc.exercises) THEN Thrown(doc)
  ELSE LET setNumber == Len(doc.exercises[exerciseIndex + 1].sets) + 1
           added == [doc EXCEPT !.exercises[exerciseIndex + 1].sets =
                       Append(@, [setNumber |-> setNumber, weight |-> weight, reps |-> reps,
                                  completed |-> FALSE, completedAt |-> Undefined])]
       IN IF doc.status = Completed
          THEN Saved([added EXCEPT !.intensity = calculateIntensity(added)])
          ELSE Saved(added)

\* addSet numbering the new set one past the next free number
addSetSkippingOne(doc, exerciseIndex, weight, reps) ==
  IF exerciseIndex < 0 \/ exerciseIndex >= Len(doc.exercises) THEN Thrown(doc)
  ELSE LET setNumber == Len(doc.exercises[exerciseIndex + 1].sets) + 2
       IN Saved([doc EXCEPT !.exercises[exerciseIndex + 1].sets =
                   Append(@, [setNumber |-> setNumber, weight |-> weight, reps |-> reps,
                              completed |-> FALSE, completedAt |-> Undefined])])

addSet(doc, exerciseIndex, weight, reps) ==
  IF exerciseIndex < 0 \/ exerciseIndex >= Len(doc.exercises) THEN Thrown(doc)
  ELSE LET setNumber == Len(doc.exercises[exerciseIndex + 1].sets) + 1
       IN Saved([doc EXCEPT !.exercises[exerciseIndex + 1].sets =
                   Append(@, [setNumber |-> setNumber, weight |-> weight, reps |-> reps,
                              completed |-> FALSE, completedAt |-> Undefined])])

\* completeSet keeping the completedAt of a set that is completed already
completeSetOnce(doc, exerciseIndex, setIndex, t) ==
  IF exerciseIndex < 0 \/ exerciseIndex >= Len(doc.exercises) THEN Thrown(doc)
  ELSE IF setIndex < 0 \/ setIndex >= Len(doc.exercises[exerciseIndex + 1].sets) THEN Thrown(doc)
  ELSE IF doc.exercises[exerciseIndex + 1].sets[setIndex + 1].completed THEN Saved(doc)
  ELSE Saved([doc EXCEPT !.exercises[exerciseIndex + 1].sets[setIndex + 1] =
                [@ EXCEPT !.completed = TRUE, !.completedAt = t]])

completeSet(doc, exerciseIndex, setIndex, t) ==
  IF exerciseIndex < 0 \/ exerciseIndex >= Len(doc.exercises) THEN Thrown(doc)
  ELSE IF setIndex < 0 \/ setIndex >= Len(doc.exercises[exerciseIndex + 1].sets) THEN Thrown(doc)
  ELSE Saved([doc EXCEPT !.exercises[exerciseIndex + 1].sets[setIndex + 1] =
                [@ EXCEPT !.completed = TRUE, !.completedAt = t]])

\* removeSet recomputing the intensity of a completed record
removeSetRecomputing(doc, exerciseIndex, setIndex) ==
  IF exerciseIndex < 0 \/ exerciseIndex >= Len(doc.exercises) THEN Thrown(doc)
  ELSE IF setIndex < 0 \/ setIndex >= Len(doc.exercises[exerciseIndex + 1].sets) THEN Thrown(doc)
  ELSE LET spliced == RemoveAt(doc.exercises[exerciseIndex + 1].sets, setIndex + 1)
           renumbered == [index \in 1..Len(spliced) |->
                            [spliced[index] EXCEPT !.setNumber = index]]
           removed == [doc EXCEPT !.exercises[exerciseIndex + 1].sets = renumbered]
       IN IF doc.status = Completed
          THEN Saved([removed EXCEPT !.intensity = calculateIntensity(removed)])
          ELSE Saved(removed)

\* removeSet without the renumbering loop
removeSetNoRenumber(doc, exerciseIndex, setIndex) ==
  IF exerciseIndex < 0 \/ exerciseIndex >= Len(doc.exercises) THEN Thrown(doc)
  ELSE IF setIndex < 0 \/ setIndex >= Len(doc.exercises[exerciseIndex + 1].sets) THEN Thrown(doc)
  ELSE Saved([doc EXCEPT !.exercises[exerciseIndex + 1].sets = RemoveAt(@, setIndex + 1)])

removeSet(doc, exerciseIndex, setIndex) ==
  IF exerciseIndex < 0 \/ exerciseIndex >= Len(doc.exercises) THEN Thrown(doc)
  ELSE IF setIndex < 0 \/ setIndex >= Len(doc.exercises[exerciseIndex + 1].sets) THEN Thrown(doc)
  ELSE LET spliced == RemoveAt(doc.exercises[exerciseIndex + 1].sets, setIndex + 1)
           renumbered == [index \in 1..Len(spliced) |->
                            [spliced[index] EXCEPT !.setNumber = index]]
       IN Saved([doc EXCEPT !.exercises[exerciseIndex + 1].sets = renumbered])

(***************************************************************************)
(* Records and responses                                                   *)
(***************************************************************************)
NewSet(setNumber, weight, reps, completed, completedAt) ==
  [setNumber |-> setNumber, weight |-> weight, reps |-> reps,
   completed |-> completed, completedAt |-> completedAt]

NewLog(exerciseId, sets) == [exercise |-> exerciseId, sets |-> sets]

Resp(op, req, status, kind, data) ==
  [op |-> op, req |-> req, status |-> status, kind |-> kind, data |-> data]

NoResp == Resp("none", << >>, 0, "none", << >>)

\* The service calls in flight (none where calls do not overlap)
NoCalls == << >>

\* The exercise catalog before any exercise is stored
NoCatalog == << >>

\* new Database(): no connection
Null == "null"
NewDatabase == [connection |-> Null, isConnected |-> FALSE, opened |-> 0]

NewDoc(username, date, startTime) ==
  [username |-> username, date |-> date, startTime |-> startTime, endTime |-> Undefined,
   duration |-> Undefined, intensity |-> Undefined, status |-> InProgress,
   exercises |-> << >>]

(***************************************************************************)
(* SpecIntensity: calculateIntensity as a function of the document.  The   *)
(* initial states are in-progress records holding every list of at most    *)
(* MaxIntensitySets sets in one log, and the records of at most one set    *)
(* with no log at all or with an empty log in front; the one step          *)
(* completes the record, which stores the intensity.                       *)
(***************************************************************************)
IntensitySetKinds == {[weight |-> 0, reps |-> 1], [weight |-> 25, reps |-> 10]}

IntensityShapes == {"none", "one", "two"}

IntensityDoc(ks, shape) ==
  LET sets == [k \in 1..Len(ks) |->
                 NewSet(k, ks[k][1].weight, ks[k][1].reps, ks[k][2],
                        IF ks[k][2] THEN 0 ELSE Undefined)]
  IN [NewDoc("alice", 0, 0) EXCEPT
        !.exercises = CASE shape = "none" -> << >>
                        [] shape = "one" -> <<NewLog("e1", sets)>>
                        [] shape = "two" -> <<NewLog("e1", << >>), NewLog("e2", sets)>>]

IntensityInit ==
  /\ \E n \in 0..MaxIntensitySets :
       \E ks \in [1..n -> IntensitySetKinds \X BOOLEAN] :
         \E shape \in IntensityShapes :
           /\ shape = "none" => n = 0
           /\ shape = "two" => n <= 1
           /\ workouts = (1 :> IntensityDoc(ks, shape))
  /\ nextId = 2
  /\ now = 0
  /\ resp = NoResp
  /\ calls = NoCalls
  /\ catalog = NoCatalog
  /\ database = NewDatabase

IntensityComplete ==
  /\ workouts[1].status = InProgress
  /\ LET r == completeWorkout(workouts[1], now)
     IN /\ r.ok
        /\ workouts' = (1 :> r.doc)
        /\ resp' = Resp("completeWorkout", << >>, 0, "record", r.doc)
  /\ UNCHANGED <<nextId, now, calls, catalog, database>>

IntensityNext == IntensityComplete

SpecIntensity == IntensityInit /\ [][IntensityNext]_vars

(***************************************************************************)
(* Quantities the claims about intensity are stated in                     *)
(***************************************************************************)
SetPositions(doc) ==
  {<<i, j>> \in (1..Len(doc.exercises)) \X (1..MaxIntensitySets + 1) :
     j <= Len(doc.exercises[i].sets)}

CountSets(doc) == Cardinality(SetPositions(doc))

CountCompleted(doc) ==
  Cardinality({p \in SetPositions(doc) : doc.exercises[p[1]].sets[p[2]].completed})

RECURSIVE VolumeOfLog(_)
VolumeOfLog(sets) ==
  IF sets = << >> THEN 0
  ELSE sets[Len(sets)].weight * sets[Len(sets)].reps + VolumeOfLog(SubSeq(sets, 1, Len(sets) - 1))

RECURSIVE Volume(_)
Volume(exs) == IF exs = << >> THEN 0 ELSE VolumeOfLog(Head(exs).sets) + Volume(Tail(exs))

\* r is the value num/den rounded to the nearest integer, a tie going up
IsRounded(r, num, den) == (2 * r - 1) * den <= 2 * num /\ 2 * num < (2 * r + 1) * den

\* C1: a completed record stores min(R, 10), R being
\* (completedSets/totalSets * 0.6 + min(volume/1000, 1) * 0.4) * 10 rounded to
\* one decimal with ties up (the rate is 0 without sets); all sets completed
\* with volume 1000 gives 10.0, one of two sets completed with volume 500 gives 5.0.
C1_IntensityFormula ==
  \A id \in DOMAIN workouts :
    LET doc == workouts[id]
        t == CountSets(doc)
        c == CountCompleted(doc)
        v == Volume(doc.exercises)
        cappedV == IF v < 1000 THEN v ELSE 1000
        num == IF t = 0 THEN 40 * cappedV ELSE 60000 * c + 40 * t * cappedV
        den == IF t = 0 THEN 1000 ELSE 1000 * t
    IN doc.status = Completed =>
         /\ \E R \in 0..100 : IsRounded(R, num, den) /\ doc.intensity = Min(R, 100)
         /\ (t > 0 /\ c = t /\ v = 1000) => doc.intensity = 100
         /\ (t = 2 /\ c = 1 /\ v = 500) => doc.intensity = 50

\* C2: the stored intensity of a record with valid sets lies in [0, 10], and
\* a record without any set (no log, or empty logs only) stores exactly 0,
\* never the NaN of a division by zero.
C2_IntensityRange ==
  \A id \in DOMAIN workouts :
    LET doc == workouts[id]
    IN doc.status = Completed =>
         /\ doc.intensity >= 0 /\ doc.intensity <= 100
         /\ CountSets(doc) = 0 => doc.intensity = 0

C2_Witness ==
  \E id \in DOMAIN workouts :
    /\ workouts[id].status = Completed
    /\ Len(workouts[id].exercises) = 2
    /\ CountSets(workouts[id]) = 0
    /\ workouts[id].intensity = 0

(***************************************************************************)
(* WorkoutService (services/workoutService.js) over the stored collection. *)
(* A service call yields [ok, db, doc]: whether it returned, the           *)
(* collection it leaves, and the record it returns.                        *)
(***************************************************************************)
Has(body, field) == field \in DOMAIN body

ServiceOk(db, doc) == [ok |-> TRUE, db |-> db, doc |-> doc]
ServiceThrows(db) == [ok |-> FALSE, db |-> db, doc |-> << >>]

\* createWorkout dating every record at the time of creation
WorkoutService_createWorkoutDatedNow(db, id, workoutData, t) ==
  LET doc == [username |-> IF Has(workoutData, "username") THEN workoutData.username ELSE "",
              date |-> t,
              startTime |-> IF Has(workoutData, "startTime") THEN workoutData.startTime ELSE t,
              endTime |-> IF Has(workoutData, "endTime") THEN workoutData.endTime ELSE Undefined,
              duration |-> IF Has(workoutData, "duration") THEN workoutData.duration ELSE Undefined,
              intensity |-> IF Has(workoutData, "intensity") THEN workoutData.intensity ELSE Undefined,
              status |-> IF Has(workoutData, "status") THEN workoutData.status ELSE InProgress,
              exercises |-> IF Has(workoutData, "exercises") THEN workoutData.exercises ELSE << >>]
  IN IF ValidDoc(doc) THEN ServiceOk((id :> doc) @@ db, doc) ELSE ServiceThrows(db)

\* new Workout({...workoutData, date, startTime, exercises}) and save()
WorkoutService_createWorkout(db, id, workoutData, t) ==
  LET doc == [username |-> IF Has(workoutData, "username") THEN workoutData.username ELSE "",
              date |-> IF Has(workoutData, "date") THEN workoutData.date ELSE t,
              startTime |-> IF Has(workoutData, "startTime") THEN workoutData.startTime ELSE t,
              endTime |-> IF Has(workoutData, "endTime") THEN workoutData.endTime ELSE Undefined,
              duration |-> IF Has(workoutData, "duration") THEN workoutData.duration ELSE Undefined,
              intensity |-> IF Has(workoutData, "intensity") THEN workoutData.intensity ELSE Undefined,
              status |-> IF Has(workoutData, "status") THEN workoutData.status ELSE InProgress,
              exercises |-> IF Has(workoutData, "exercises") THEN workoutData.exercises ELSE << >>]
  IN IF ValidDoc(doc) THEN ServiceOk((id :> doc) @@ db, doc) ELSE ServiceThrows(db)

WorkoutService_getWorkoutById(db, workoutId) ==
  IF workoutId \in DOMAIN db THEN ServiceOk(db, db[workoutId]) ELSE ServiceThrows(db)

\* Update validators (runValidators) of the paths the update sets
ValidUpdate(updateData) ==
  /\ Has(updateData, "username") => updateData.username # ""
  /\ Has(updateData, "status") => updateData.status \in StatusEnum
  /\ Has(updateData, "duration") => updateData.duration >= 0
  /\ Has(updateData, "intensity") =>
       (updateData.intensity >= 0 /\ updateData.intensity <= MaxIntensity)

\* findByIdAndUpdate(workoutId, updateData, {new, runValidators})
WorkoutService_updateWorkout(db, workoutId, updateData) ==
  IF workoutId \notin DOMAIN db \/ ~ValidUpdate(updateData) THEN ServiceThrows(db)
  ELSE LET doc == [f \in DOMAIN db[workoutId] |->
                     IF Has(updateData, f) THEN updateData[f] ELSE db[workoutId][f]]
       IN ServiceOk([db EXCEPT ![workoutId] = doc], doc)

\* findByIdAndDelete(workoutId)
WorkoutService_deleteWorkout(db, workoutId) ==
  IF workoutId \notin DOMAIN db THEN ServiceThrows(db)
  ELSE ServiceOk([w \in DOMAIN db \ {workoutId} |-> db[w]], db[workoutId])

\* getWorkoutById, the document method, getWorkoutById again
ServiceMutate(db, workoutId, r) ==
  IF r.ok THEN ServiceOk([db EXCEPT ![workoutId] = r.doc], r.doc) ELSE ServiceThrows(db)

WorkoutService_addExerciseToWorkout(db, workoutId, exerciseId) ==
  IF workoutId \notin DOMAIN db THEN ServiceThrows(db)
  ELSE ServiceMutate(db, workoutId, addExercise(db[workoutId], exerciseId))

WorkoutService_addSetToWorkout(db, workoutId, exerciseIndex, weight, reps) ==
  IF workoutId \notin DOMAIN db THEN ServiceThrows(db)
  ELSE ServiceMutate(db, workoutId, addSet(db[workoutId], exerciseIndex, weight, reps))

WorkoutService_completeSetInWorkout(db, workoutId, exerciseIndex, setIndex, t) ==
  IF workoutId \notin DOMAIN db THEN ServiceThrows(db)
  ELSE ServiceMutate(db, workoutId, completeSet(db[workoutId], exerciseIndex, setIndex, t))

WorkoutService_completeWorkout(db, workoutId, t) ==
  IF workoutId \notin DOMAIN db THEN ServiceThrows(db)
  ELSE ServiceMutate(db, workoutId, completeWorkout(db[workoutId], t))

\* The service defines no removeSetFromWorkout: the controller's call of it
\* is a call of undefined and throws a TypeError.
WorkoutService_removeSetFromWorkout(db, workoutId, exerciseIndex, setIndex) ==
  ServiceThrows(db)

(***************************************************************************)
(* The document methods applied to the one stored record, as load, call,   *)
(* save.  A call that throws, or whose save() fails validation, leaves the *)
(* stored record as it was.  resp keeps the call and what it returned.     *)
(***************************************************************************)
InputWeights == {-1, 50}
InputReps == {0, 10}

DocApply(op, req, r) ==
  IF r.ok
  THEN /\ workouts' = [workouts EXCEPT ![1] = r.doc]
       /\ resp' = Resp(op, req, 0, "record", r.doc)
  ELSE /\ UNCHANGED workouts
       /\ resp' = Resp(op, << >>, 0, "thrown", << >>)

ExerciseIndexInputs == -1..Len(workouts[1].exercises)

SetIndexInputs ==
  -1..Len(workouts[1].exercises[IF Len(workouts[1].exercises) >= 2 THEN 2 ELSE 1].sets)

AddExerciseWithin(maxExercises) ==
  /\ Len(workouts[1].exercises) < maxExercises
  /\ \E exerciseId \in ExerciseIds :
       DocApply("addExercise", [exerciseId |-> exerciseId],
                addExercise(workouts[1], exerciseId))
  /\ UNCHANGED <<nextId, now, calls, catalog, database>>

DocAddExercise == AddExerciseWithin(MaxExercises)

AddSetWithin(maxSets) ==
  /\ \E exerciseIndex \in ExerciseIndexInputs, weight \in InputWeights, reps \in InputReps :
       /\ (exerciseIndex >= 0 /\ exerciseIndex < Len(workouts[1].exercises))
            => Len(workouts[1].exercises[exerciseIndex + 1].sets) < maxSets
       /\ DocApply("addSet",
                   [exerciseIndex |-> exerciseIndex, weight |-> weight, reps |-> reps],
                   addSet(workouts[1], exerciseIndex, weight, reps))
  /\ UNCHANGED <<nextId, now, calls, catalog, database>>

DocAddSet == AddSetWithin(MaxSets)

DocCompleteSet ==
  /\ workouts[1].exercises # << >>
  /\ \E exerciseIndex \in ExerciseIndexInputs, setIndex \in SetIndexInputs :
       DocApply("completeSet", [exerciseIndex |-> exerciseIndex, setIndex |-> setIndex],
                completeSet(workouts[1], exerciseIndex, setIndex, now))
  /\ UNCHANGED <<nextId, now, calls, catalog, database>>

DocRemoveSet ==
  /\ workouts[1].exercises # << >>
  /\ \E exerciseIndex \in ExerciseIndexInputs, setIndex \in SetIndexInputs :
       DocApply("removeSet", [exerciseIndex |-> exerciseIndex, setIndex |-> setIndex],
                removeSet(workouts[1], exerciseIndex, setIndex))
  /\ UNCHANGED <<nextId, now, calls, catalog, database>>

DocCompleteWorkout ==
  /\ DocApply("completeWorkout", << >>, completeWorkout(workouts[1], now))
  /\ UNCHANGED <<nextId, now, calls, catalog, database>>

(***************************************************************************)
(* SpecRemoveSet: removeSet as a function of the document.  The initial    *)
(* states hold every list of at most MaxRemoveSets sets in the second log  *)
(* of a record, numbered as addSet numbers them.                           *)
(***************************************************************************)
RemoveSetKinds == {50, 60} \X BOOLEAN

RemoveSetDoc(ks, other) ==
  LET mk(q) == [k \in 1..Len(q) |->
                  NewSet(k, q[k][1], 10, q[k][2], IF q[k][2] THEN 0 ELSE Undefined)]
  IN [NewDoc("alice", 0, 0) EXCEPT
        !.exercises = <<NewLog("e1", mk(other)), NewLog("e2", mk(ks))>>]

RemoveSetInit ==
  /\ \E n \in 0..MaxRemoveSets :
       \E ks \in [1..n -> RemoveSetKinds] :
         \E other \in {<< >>, <<(<<50, TRUE>>)>>} :
           workouts = (1 :> RemoveSetDoc(ks, other))
  /\ nextId = 2
  /\ now = 0
  /\ resp = NoResp
  /\ calls = NoCalls
  /\ catalog = NoCatalog
  /\ database = NewDatabase

RemoveSetNext == DocRemoveSet

SpecRemoveSet == RemoveSetInit /\ [][RemoveSetNext]_vars

(***************************************************************************)
(* SpecDoc: any sequence of the five mutators on one record, from the      *)
(* record createWorkout({username}) stores.                                *)
(***************************************************************************)
DocInit ==
  /\ workouts = (1 :> NewDoc("alice", 0, 0))
  /\ nextId = 2
  /\ now = 0
  /\ resp = NoResp
  /\ calls = NoCalls
  /\ catalog = NoCatalog
  /\ database = NewDatabase

DocNext ==
  \/ DocAddExercise
  \/ DocAddSet
  \/ DocCompleteSet
  \/ DocRemoveSet
  \/ DocCompleteWorkout

SpecDoc == DocInit /\ [][DocNext]_vars

(***************************************************************************)
(* SpecClock: the five mutators on one record while the server clock       *)
(* advances.  The record is created at ClockStart; the clock moves in      *)
(* steps of 30 and 95 seconds, so that the elapsed times include exact     *)
(* half minutes (30, 90), values that round up (95) and values that round  *)
(* down (125).                                                             *)
(***************************************************************************)
ClockSteps == {SecondsPerMinute \div 2, SecondsPerMinute + 35}

ClockInit ==
  /\ workouts = (1 :> NewDoc("alice", ClockStart, ClockStart))
  /\ nextId = 2
  /\ now = ClockStart
  /\ resp = NoResp
  /\ calls = NoCalls
  /\ catalog = NoCatalog
  /\ database = NewDatabase

ClockTick ==
  /\ \E d \in ClockSteps :
       /\ now + d <= ClockStart + MaxElapsed
       /\ now' = now + d
  /\ UNCHANGED <<workouts, nextId, resp, calls, catalog, database>>

ClockAddExercise == AddExerciseWithin(ClockMaxExercises)

ClockAddSet == AddSetWithin(ClockMaxSets)

ClockNext ==
  \/ ClockTick
  \/ ClockAddExercise
  \/ ClockAddSet
  \/ DocCompleteSet
  \/ DocRemoveSet
  \/ DocCompleteWorkout

SpecClock == ClockInit /\ [][ClockNext]_vars

SetNumbers(sets) == [k \in 1..Len(sets) |-> sets[k].setNumber]

SetContent(s) == <<s.weight, s.reps, s.completed, s.completedAt>>

\* C3: removeSet with both indices in range removes exactly the set at
\* setIndex of that log; the others keep their order and content and are
\* numbered 1..N (removing index 1 of sets numbered 1,2,3,4 leaves 1,2,3).
C3_RemoveSetRenumbers ==
  [][\A ei \in 0..1, si \in 0..(MaxRemoveSets - 1) :
       LET old == workouts[1].exercises[ei + 1].sets
           new == workouts'[1].exercises[ei + 1].sets
       IN (/\ resp'.op = "removeSet"
           /\ resp'.req = [exerciseIndex |-> ei, setIndex |-> si]
           /\ si < Len(old))
          => /\ resp'.kind = "record"
             /\ Len(new) = Len(old) - 1
             /\ \A k \in 1..Len(new) :
                  /\ SetContent(new[k]) = SetContent(old[IF k <= si THEN k ELSE k + 1])
                  /\ new[k].setNumber = k
             /\ (SetNumbers(old) = <<1, 2, 3, 4>> /\ si = 1)
                  => SetNumbers(new) = <<1, 2, 3>>]_vars

\* A set was removed at index 1 of a log of four: the three others remain.
C3_Witness ==
  /\ resp.op = "removeSet"
  /\ resp.kind = "record"
  /\ resp.req = [exerciseIndex |-> 1, setIndex |-> 1]
  /\ Len(workouts[1].exercises[2].sets) = 3
  /\ workouts[1].exercises[2].sets[1].weight = 50
  /\ workouts[1].exercises[2].sets[2].weight = 60

\* C4: after any sequence of addExercise, addSet, completeSet, removeSet and
\* completeWorkout on a record created with no exercises, the set at
\* position j of every log (counting from 0) has setNumber j + 1.
C4_SetNumbersContiguous ==
  \A id \in DOMAIN workouts :
    \A i \in 1..Len(workouts[id].exercises) :
      \A j \in 1..Len(workouts[id].exercises[i].sets) :
        workouts[id].exercises[i].sets[j].setNumber = j

\* The first of three sets was removed and the record was completed since.
C4_Witness ==
  /\ resp.op = "removeSet"
  /\ resp.kind = "record"
  /\ resp.req.setIndex = 0
  /\ resp.req.exerciseIndex = 1
  /\ Len(workouts[1].exercises[2].sets) = MaxSets - 1
  /\ Len(workouts[1].exercises[1].sets) = MaxSets
  /\ workouts[1].status = Completed

(***************************************************************************)
(* Spec: the WorkoutController handlers (controllers/workoutController.js) *)
(* behind /api/workouts, one request at a time.  Each action is a whole    *)
(* handler: its checks, the service call, and the response it sends.       *)
(* resp.req keeps the record id and the username the request carried,      *)
(* whether it carried the handler's required parameters, and (for a        *)
(* sub-resource request that got as far as the service call) the arguments *)
(* of that call; for a create it is the body.                              *)
(***************************************************************************)
UsernameInputs == Users \cup {""}
\* The ids issued so far (id 1 resolves to nothing before the first create)
IdInputs == 1..(IF nextId > 1 THEN nextId - 1 ELSE 1)
DateInputs == {0 - 8 * SecondsPerDay}
TickStep == SecondsPerMinute \div 2

SeededLog == NewLog("e1", <<NewSet(2, 50, 10, FALSE, Undefined)>>)

CreateBodies ==
  {[username |-> u] : u \in UsernameInputs}
    \cup {[username |-> u, date |-> d] : u \in Users, d \in DateInputs}
    \cup {[username |-> "bob", startTime |-> d] : d \in DateInputs}
    \cup {[username |-> "bob", status |-> st] : st \in {Completed, "paused"}}
    \cup {[username |-> "bob", exercises |-> <<SeededLog>>]}

UpdateBodies ==
  {[status |-> st] : st \in {InProgress, "paused"}}
    \cup {[username |-> u, intensity |-> 70] : u \in Users}

Req(id, username, params) == [id |-> id, username |-> username, params |-> params]

Send(op, id, username, status, kind, data) ==
  resp' = Resp(op, Req(id, username, TRUE), status, kind, data)

SendFor(op, req, status, kind, data) == resp' = Resp(op, req, status, kind, data)

Init ==
  /\ workouts = << >>
  /\ nextId = 1
  /\ now = 0
  /\ resp = NoResp
  /\ calls = NoCalls
  /\ catalog = NoCatalog
  /\ database = NewDatabase

Tick ==
  /\ now < MaxTicks * TickStep
  /\ now' = now + TickStep
  /\ UNCHANGED <<workouts, nextId, resp, calls, catalog, database>>

CreateWorkout(maxRecords) ==
  /\ nextId <= maxRecords
  /\ \E body \in CreateBodies :
       LET r == WorkoutService_createWorkout(workouts, nextId, body, now)
       IN IF body.username = ""
          THEN /\ SendFor("createWorkout", body, 400, "none", << >>)
               /\ UNCHANGED <<workouts, nextId>>
          ELSE IF r.ok
          THEN /\ workouts' = r.db
               /\ nextId' = nextId + 1
               /\ SendFor("createWorkout", body, 201, "record", r.doc)
          ELSE /\ SendFor("createWorkout", body, 500, "none", << >>)
               /\ UNCHANGED <<workouts, nextId>>
  /\ UNCHANGED <<now, calls, catalog, database>>

WorkoutController_createWorkout == CreateWorkout(MaxRecords)

WorkoutController_getWorkoutById ==
  /\ \E id \in IdInputs, username \in UsernameInputs :
       LET r == WorkoutService_getWorkoutById(workouts, id)
       IN IF username = "" THEN Send("getWorkoutById", id, username, 400, "none", << >>)
          ELSE IF ~r.ok THEN Send("getWorkoutById", id, username, 404, "none", << >>)
          ELSE IF r.doc.username # username
          THEN Send("getWorkoutById", id, username, 403, "none", << >>)
          ELSE Send("getWorkoutById", id, username, 200, "record", r.doc)
  /\ UNCHANGED <<workouts, nextId, now, calls, catalog, database>>

\* The username an update request carries is the one in its body, if any
WorkoutController_updateWorkout ==
  /\ \E id \in IdInputs, body \in UpdateBodies :
       LET r == WorkoutService_updateWorkout(workouts, id, body)
           username == IF Has(body, "username") THEN body.username ELSE ""
       IN IF r.ok
          THEN /\ workouts' = r.db
               /\ Send("updateWorkout", id, username, 200, "record", r.doc)
          ELSE /\ UNCHANGED workouts
               /\ Send("updateWorkout", id, username, 400, "none", << >>)
  /\ UNCHANGED <<nextId, now, calls, catalog, database>>

WorkoutController_deleteWorkout ==
  /\ \E id \in IdInputs, username \in UsernameInputs :
       LET r == WorkoutService_deleteWorkout(workouts, id)
       IN IF r.ok
          THEN /\ workouts' = r.db
               /\ Send("deleteWorkout", id, username, 200, "none", << >>)
          ELSE /\ UNCHANGED workouts
               /\ Send("deleteWorkout", id, username, 404, "none", << >>)
  /\ UNCHANGED <<nextId, now, calls, catalog, database>>

\* The sub-resource handler without its ownership check
SubResourceAnyOwner(op, id, username, paramsPresent, args, r) ==
  LET found == WorkoutService_getWorkoutById(workouts, id)
      called == username # "" /\ paramsPresent /\ found.ok
      req == [id |-> id, username |-> username, params |-> paramsPresent,
              args |-> IF called THEN args ELSE << >>]
  IN IF username = "" \/ ~paramsPresent \/ ~found.ok
     THEN /\ SendFor(op, req, 400, "none", << >>)
          /\ UNCHANGED workouts
     ELSE IF r.ok
     THEN /\ workouts' = r.db
          /\ SendFor(op, req, 200, "record", r.doc)
     ELSE /\ SendFor(op, req, 400, "none", << >>)
          /\ UNCHANGED workouts

\* The part the five sub-resource handlers share: the username check, the
\* parameter check, the ownership check on the loaded record, then the
\* service call r; every exception is answered 400.
SubResource(op, id, username, paramsPresent, args, r) ==
  LET found == WorkoutService_getWorkoutById(workouts, id)
      called == username # "" /\ paramsPresent /\ found.ok /\ found.doc.username = username
      req == [id |-> id, username |-> username, params |-> paramsPresent,
              args |-> IF called THEN args ELSE << >>]
  IN IF username = "" \/ ~paramsPresent \/ ~found.ok
     THEN /\ SendFor(op, req, 400, "none", << >>)
          /\ UNCHANGED workouts
     ELSE IF found.doc.username # username
     THEN /\ SendFor(op, req, 403, "none", << >>)
          /\ UNCHANGED workouts
     ELSE IF r.ok
     THEN /\ workouts' = r.db
          /\ SendFor(op, req, 200, "record", r.doc)
     ELSE /\ SendFor(op, req, 400, "none", << >>)
          /\ UNCHANGED workouts

WorkoutController_addExerciseToWorkout ==
  /\ \E id \in IdInputs, username \in UsernameInputs, exerciseId \in ExerciseIds \cup {""} :
       /\ id \in DOMAIN workouts => Len(workouts[id].exercises) < HttpMaxExercises
       /\ SubResource("addExercise", id, username, exerciseId # "",
                      [exerciseId |-> exerciseId],
                      WorkoutService_addExerciseToWorkout(workouts, id, exerciseId))
  /\ UNCHANGED <<nextId, now, calls, catalog, database>>

WorkoutController_addSetToWorkout ==
  /\ \E id \in IdInputs, username \in UsernameInputs, paramsPresent \in BOOLEAN,
        exerciseIndex \in -1..HttpMaxExercises, weight \in InputWeights, reps \in InputReps :
       /\ (id \in DOMAIN workouts /\ exerciseIndex >= 0
             /\ exerciseIndex < Len(workouts[id].exercises))
            => Len(workouts[id].exercises[exerciseIndex + 1].sets) < HttpMaxSets
       /\ SubResource("addSet", id, username, paramsPresent,
                      [exerciseIndex |-> exerciseIndex, weight |-> weight, reps |-> reps],
                      WorkoutService_addSetToWorkout(workouts, id, exerciseIndex, weight, reps))
  /\ UNCHANGED <<nextId, now, calls, catalog, database>>

WorkoutController_completeSetInWorkout ==
  /\ \E id \in IdInputs, username \in UsernameInputs, paramsPresent \in BOOLEAN,
        exerciseIndex \in -1..HttpMaxExercises, setIndex \in -1..HttpMaxSets :
       SubResource("completeSet", id, username, paramsPresent,
                   [exerciseIndex |-> exerciseIndex, setIndex |-> setIndex],
                   WorkoutService_completeSetInWorkout(workouts, id, exerciseIndex, setIndex, now))
  /\ UNCHANGED <<nextId, now, calls, catalog, database>>

WorkoutController_deleteSetFromWorkout ==
  /\ \E id \in IdInputs, username \in UsernameInputs, paramsPresent \in BOOLEAN,
        exerciseIndex \in -1..HttpMaxExercises, setIndex \in -1..HttpMaxSets :
       SubResource("removeSet", id, username, paramsPresent,
                   [exerciseIndex |-> exerciseIndex, setIndex |-> setIndex],
                   WorkoutService_removeSetFromWorkout(workouts, id, exerciseIndex, setIndex))
  /\ UNCHANGED <<nextId, now, calls, catalog, database>>

WorkoutController_completeWorkout ==
  /\ \E id \in IdInputs, username \in UsernameInputs :
       SubResource("completeWorkout", id, username, TRUE, << >>,
                   WorkoutService_completeWorkout(workouts, id, now))
  /\ UNCHANGED <<nextId, now, calls, catalog, database>>

Next ==
  \/ Tick
  \/ WorkoutController_createWorkout
  \/ WorkoutController_getWorkoutById
  \/ WorkoutController_updateWorkout
  \/ WorkoutController_deleteWorkout
  \/ WorkoutController_addExerciseToWorkout
  \/ WorkoutController_addSetToWorkout
  \/ WorkoutController_completeSetInWorkout
  \/ WorkoutController_deleteSetFromWorkout
  \/ WorkoutController_completeWorkout

Spec == Init /\ [][Next]_vars

TypeOK ==
  /\ nextId \in 1..(MaxRecords + 1)
  /\ DOMAIN workouts \subseteq 1..(nextId - 1)
  /\ \A id \in DOMAIN workouts : ValidDoc(workouts[id])

(***************************************************************************)
(* The list and statistics queries (Workout statics and WorkoutService)    *)
(***************************************************************************)
DefaultLimit == 50
DefaultOffset == 0
DefaultDays == 30
BriefDays == 7
DefaultHistoryDays == 180

\* bodyPart of the catalog entries the exercise references populate
BodyPartOf == [e \in ExerciseIds |-> IF e = "e1" THEN "chest" ELSE "back"]

DateKey(date) == date \div SecondsPerDay

\* sort({date: -1}); records of equal date keep their insertion order
RECURSIVE SortByDateDesc(_, _)
SortByDateDesc(db, ids) ==
  IF ids = {} THEN << >>
  ELSE LET first == CHOOSE id \in ids :
                      \A o \in ids : \/ db[o].date < db[id].date
                                     \/ db[o].date = db[id].date /\ o >= id
       IN <<db[first]>> \o SortByDateDesc(db, ids \ {first})

\* The sequence s without the repetitions of its elements (a Set's order)
RECURSIVE Distinct(_)
Distinct(s) ==
  IF s = << >> THEN << >>
  ELSE LET rest == Distinct(SubSeq(s, 1, Len(s) - 1))
           last == s[Len(s)]
       IN IF \E k \in 1..Len(rest) : rest[k] = last THEN rest ELSE Append(rest, last)

WorkoutService_getAllWorkouts(db, username, options) ==
  LET limit == IF options.limit = Undefined THEN DefaultLimit ELSE options.limit
      offset == IF options.offset = Undefined THEN DefaultOffset ELSE options.offset
      found == SortByDateDesc(db, {id \in DOMAIN db : db[id].username = username})
  IN SubSeq(found, offset + 1, Min(Len(found), offset + limit))

Workout_getRecentWorkouts(db, username, days, t) ==
  LET startDate == t - days * SecondsPerDay
  IN SortByDateDesc(db, {id \in DOMAIN db : /\ db[id].username = username
                                            /\ db[id].date >= startDate})

WorkoutService_getRecentWorkouts(db, username, days, t) ==
  Workout_getRecentWorkouts(db, username, IF days = Undefined THEN DefaultDays ELSE days, t)

WorkoutService_getRecent7DaysWorkoutBrief(db, username, t) ==
  LET found == Workout_getRecentWorkouts(db, username, BriefDays, t)
      parts(doc) == [k \in 1..Len(doc.exercises) |-> BodyPartOf[doc.exercises[k].exercise]]
  IN [k \in 1..Len(found) |->
        [date |-> found[k].date, bodyParts |-> Distinct(parts(found[k])),
         intensity |-> found[k].intensity, status |-> found[k].status]]

\* findOne: the first stored record of the user dated on that day, or null
Workout_getWorkoutByDate(db, username, date) ==
  LET ids == {id \in DOMAIN db : /\ db[id].username = username
                                 /\ DateKey(db[id].date) = DateKey(date)}
  IN IF ids = {} THEN << >>
     ELSE db[CHOOSE id \in ids : \A o \in ids : id <= o]

WorkoutService_getWorkoutByDate(db, username, date) ==
  Workout_getWorkoutByDate(db, username, date)

WorkoutService_getWorkoutStats(db, username, days, t) ==
  LET found == WorkoutService_getRecentWorkouts(db, username, days, t)
      logs == Flatten([k \in 1..Len(found) |-> found[k].exercises])
      setsOf(b) == [k \in 1..Len(logs) |->
                      IF BodyPartOf[logs[k].exercise] = b THEN Len(logs[k].sets) ELSE 0]
      lastOn(d) == CHOOSE k \in 1..Len(found) :
                     /\ DateKey(found[k].date) = d
                     /\ \A o \in 1..Len(found) : DateKey(found[o].date) = d => o <= k
      sum == SumSeq([k \in 1..Len(found) |->
                       IF found[k].intensity > 0 THEN found[k].intensity ELSE 0])
  IN [totalWorkouts |-> Len(found),
      totalSets |-> SumSeq([k \in 1..Len(logs) |-> Len(logs[k].sets)]),
      totalExercises |-> Len(logs),
      averageIntensity |-> IF Len(found) > 0 THEN MathRound(sum, Len(found)) ELSE 0,
      bodyParts |-> [b \in {BodyPartOf[logs[k].exercise] : k \in 1..Len(logs)} |->
                       SumSeq(setsOf(b))],
      byDate |-> [d \in {DateKey(found[k].date) : k \in 1..Len(found)} |->
                    [intensity |-> found[lastOn(d)].intensity,
                     exercises |-> Len(found[lastOn(d)].exercises)]]]

(***************************************************************************)
(* SpecQueries: the five list and statistics handlers next to the          *)
(* handlers that create, update and delete records, with up to             *)
(* MaxQueryRecords records of two users.  The clock stands still; the      *)
(* records are dated now or eight days ago, so the 7-day and the 30-day    *)
(* windows differ.  resp.req is the query string of the request.           *)
(***************************************************************************)
LimitInputs == {Undefined, 1}
OffsetInputs == {Undefined, 1}
DaysInputs == {Undefined, BriefDays}
DayInputs == DateInputs \cup {0}

QueryOps == {"getAllWorkouts", "getRecentWorkouts", "getRecent7DaysBrief",
             "getWorkoutByDate", "getWorkoutStats"}

\* A query handler: 400 without a username, else 200 with the answer
Query(op, req, answer) ==
  /\ IF req.username = ""
     THEN SendFor(op, req, 400, "none", << >>)
     ELSE SendFor(op, req, 200, "answer", answer)
  /\ UNCHANGED <<workouts, nextId, now, calls, catalog, database>>

WorkoutController_getAllWorkouts ==
  \E username \in UsernameInputs, limit \in LimitInputs, offset \in OffsetInputs :
    LET options == [limit |-> limit, offset |-> offset]
    IN Query("getAllWorkouts", [username |-> username, options |-> options],
             WorkoutService_getAllWorkouts(workouts, username, options))

WorkoutController_getRecentWorkouts ==
  \E username \in UsernameInputs, days \in DaysInputs :
    Query("getRecentWorkouts", [username |-> username, days |-> days],
          WorkoutService_getRecentWorkouts(workouts, username, days, now))

WorkoutController_getRecent7DaysBrief ==
  \E username \in UsernameInputs :
    Query("getRecent7DaysBrief", [username |-> username],
          WorkoutService_getRecent7DaysWorkoutBrief(workouts, username, now))

WorkoutController_getWorkoutByDate ==
  \E username \in UsernameInputs, date \in DayInputs :
    Query("getWorkoutByDate", [username |-> username, date |-> date],
          WorkoutService_getWorkoutByDate(workouts, username, date))

WorkoutController_getWorkoutStats ==
  \E username \in UsernameInputs, days \in DaysInputs :
    Query("getWorkoutStats", [username |-> username, days |-> days],
          WorkoutService_getWorkoutStats(workouts, username, days, now))

\* GET /overview: the route names workoutController.getWorkoutOverview,
\* which the controller does not define, and workoutAPI of the frontend has
\* no getWorkoutOverview either: the request has no handler, the call of
\* loadOverview throws, and no overview is computed.
WorkoutController_getWorkoutOverview ==
  /\ \E username \in UsernameInputs, days \in DaysInputs :
       SendFor("getWorkoutOverview", [username |-> username, days |-> days],
               0, "thrown", << >>)
  /\ UNCHANGED <<workouts, nextId, now, calls, catalog, database>>

\* workoutService.getExerciseHistory is not defined: the call throws a
\* TypeError inside the handler's try block
WorkoutService_getExerciseHistory(db, username, exerciseId, days, t) == ServiceThrows(db)

\* GET /exercise-history/:exerciseId
WorkoutController_getExerciseHistory ==
  /\ \E username \in UsernameInputs, exerciseId \in ExerciseIds, days \in DaysInputs :
       LET req == [username |-> username, exerciseId |-> exerciseId, days |-> days]
           r == WorkoutService_getExerciseHistory(
                  workouts, username, exerciseId,
                  IF days = Undefined THEN DefaultHistoryDays ELSE days, now)
       IN IF username = "" THEN SendFor("getExerciseHistory", req, 400, "none", << >>)
          ELSE IF r.ok THEN SendFor("getExerciseHistory", req, 200, "answer", r.doc)
          ELSE SendFor("getExerciseHistory", req, 400, "none", << >>)
  /\ UNCHANGED <<workouts, nextId, now, calls, catalog, database>>

QueryCreateWorkout == CreateWorkout(MaxQueryRecords)

QueriesNext ==
  \/ QueryCreateWorkout
  \/ WorkoutController_updateWorkout
  \/ WorkoutController_deleteWorkout
  \/ WorkoutController_getAllWorkouts
  \/ WorkoutController_getRecentWorkouts
  \/ WorkoutController_getRecent7DaysBrief
  \/ WorkoutController_getWorkoutByDate
  \/ WorkoutController_getWorkoutStats
  \/ WorkoutController_getWorkoutOverview
  \/ WorkoutController_getExerciseHistory

SpecQueries == Init /\ [][QueriesNext]_vars

(***************************************************************************)
(* Claims about ownership, status and creation, under Spec                 *)
(***************************************************************************)
ByIdOps == {"getWorkoutById", "updateWorkout", "deleteWorkout", "addExercise",
            "addSet", "completeSet", "removeSet", "completeWorkout"}

CheckedOps == ByIdOps \ {"updateWorkout", "deleteWorkout"}

\* The step is a request addressed to the stored record id
RequestTo(id, ops) ==
  /\ now' = now
  /\ resp'.op \in ops
  /\ resp'.req.id = id

\* C5: a request on /workouts/:id (fetch, update, delete, or one of the five
\* sub-resource mutations) whose username differs from the record's, or is
\* missing, never reads, changes or deletes the record.
C5_CrossUserRejected ==
  [][\A id \in DOMAIN workouts :
       (RequestTo(id, ByIdOps) /\ resp'.req.username # workouts[id].username)
         => /\ resp'.kind # "record"
            /\ id \in DOMAIN workouts'
            /\ workouts'[id] = workouts[id]]_vars

\* C6 as claimed: a request of the six checked operations whose username
\* differs from the record's is answered 403, without data, and the stored
\* record stays as it was.
C6_Mismatch403 ==
  [][\A id \in DOMAIN workouts :
       (RequestTo(id, CheckedOps)
          /\ resp'.req.username \notin {"", workouts[id].username})
         => /\ resp'.status = 403
            /\ resp'.kind = "none"
            /\ workouts' = workouts]_vars

\* C6 amended: such a request is answered 403 when it carries the
\* handler's required parameters and 400 when it lacks one; in both cases
\* it returns no data and the stored record stays as it was.
C6_MismatchRejected ==
  [][\A id \in DOMAIN workouts :
       (RequestTo(id, CheckedOps)
          /\ resp'.req.username \notin {"", workouts[id].username})
         => /\ resp'.status = IF resp'.req.params THEN 403 ELSE 400
            /\ resp'.kind = "none"
            /\ workouts' = workouts]_vars

\* bob asked for the first set of alice's record to be completed
C6_Witness ==
  /\ resp.op = "completeSet"
  /\ resp.status = 403
  /\ resp.req.username = "bob"
  /\ 1 \in DOMAIN workouts
  /\ workouts[1].username = "alice"
  /\ workouts[1].exercises # << >>
  /\ workouts[1].exercises[1].sets # << >>
  /\ ~workouts[1].exercises[1].sets[1].completed

\* The stored records of one user
OwnRecords(db, username) ==
  [id \in {i \in DOMAIN db : db[i].username = username} |-> db[id]]

\* What the query of a request answers over the collection db
AnswerTo(op, req, db, t) ==
  CASE op = "getAllWorkouts" -> WorkoutService_getAllWorkouts(db, req.username, req.options)
    [] op = "getRecentWorkouts" ->
         WorkoutService_getRecentWorkouts(db, req.username, req.days, t)
    [] op = "getRecent7DaysBrief" ->
         WorkoutService_getRecent7DaysWorkoutBrief(db, req.username, t)
    [] op = "getWorkoutByDate" -> WorkoutService_getWorkoutByDate(db, req.username, req.date)
    [] op = "getWorkoutStats" -> WorkoutService_getWorkoutStats(db, req.username, req.days, t)

\* Every answer the five queries can give one user, per query string
QueryAnswers(db, username, t) ==
  [op \in QueryOps |->
     CASE op = "getAllWorkouts" ->
            [o \in [limit : LimitInputs, offset : OffsetInputs] |->
               AnswerTo(op, [username |-> username, options |-> o], db, t)]
       [] op \in {"getRecentWorkouts", "getWorkoutStats"} ->
            [d \in DaysInputs |-> AnswerTo(op, [username |-> username, days |-> d], db, t)]
       [] op = "getRecent7DaysBrief" -> AnswerTo(op, [username |-> username], db, t)
       [] op = "getWorkoutByDate" ->
            [d \in DayInputs |-> AnswerTo(op, [username |-> username, date |-> d], db, t)]]

\* The step touches records of other users only: the records of username
\* are stored afterwards as before, and what the step created, changed or
\* deleted was not a record of username before and is none when created.
OthersOnly(username) ==
  /\ workouts' # workouts
  /\ \A id \in DOMAIN workouts :
       workouts[id].username = username
         => id \in DOMAIN workouts' /\ workouts'[id] = workouts[id]
  /\ \A id \in DOMAIN workouts' \ DOMAIN workouts : workouts'[id].username # username

\* C7: getAllWorkouts, getRecentWorkouts, getRecent7DaysWorkoutBrief,
\* getWorkoutStats and getWorkoutByDate answer a user from that user's own
\* records only: the answer is the one the query gives over the user's
\* records alone, every record returned carries the user's name, and a step
\* that creates, changes or deletes records of other users leaves every
\* answer the user can get as it is.
C7_OwnRecordsOnly ==
  [][/\ (resp'.op \in QueryOps /\ resp'.status = 200)
          => /\ resp'.data = AnswerTo(resp'.op, resp'.req,
                                      OwnRecords(workouts', resp'.req.username), now')
             /\ resp'.op \in {"getAllWorkouts", "getRecentWorkouts"}
                  => \A k \in 1..Len(resp'.data) :
                       resp'.data[k].username = resp'.req.username
             /\ (resp'.op = "getWorkoutByDate" /\ resp'.data # << >>)
                  => resp'.data.username = resp'.req.username
     /\ \A u \in Users :
          OthersOnly(u) => QueryAnswers(workouts', u, now') = QueryAnswers(workouts, u, now)]_vars

\* C8: completeWorkout moves an in-progress record to completed, and a
\* completed record is never in progress again, whatever request follows
\* (the raw update PUT /workouts/:id included).
C8_StatusOneWay ==
  [][\A id \in DOMAIN workouts \cap DOMAIN workouts' :
       /\ (RequestTo(id, {"completeWorkout"}) /\ resp'.status = 200)
            => workouts'[id].status = Completed
       /\ workouts[id].status = Completed => workouts'[id].status = Completed]_vars

\* C9: a record in progress has no endTime, no duration and no intensity.
C9_InProgressHasNoCompletionData ==
  \A id \in DOMAIN workouts :
    workouts[id].status = InProgress
      => /\ workouts[id].endTime = Undefined
         /\ workouts[id].duration = Undefined
         /\ workouts[id].intensity = Undefined

\* The step is a create that stored a record
Created == resp'.op = "createWorkout" /\ resp'.status = 201 /\ nextId' # nextId

DocCall(op) == now' = now /\ resp'.op = op /\ resp'.kind = "record"

InRangeExercises(doc) == 0..(Len(doc.exercises) - 1)

InRangeSets(doc, exerciseIndex) == 0..(Len(doc.exercises[exerciseIndex + 1].sets) - 1)

\* C11: completeWorkout sets endTime to the server time, duration to the
\* elapsed time in minutes rounded to the nearest whole minute (125 s give
\* 2), intensity to calculateIntensity of the record as it is, status to
\* completed, and nothing else; the duration is a function of startTime and
\* endTime alone.
C11_CompleteWorkoutSets ==
  [][DocCall("completeWorkout")
       => LET doc == workouts[1]
              done == workouts'[1]
              elapsed == done.endTime - done.startTime
          IN /\ done.endTime = now
             /\ IsRounded(done.duration, elapsed, SecondsPerMinute)
             /\ elapsed = 125 => done.duration = 2
             /\ done.intensity = calculateIntensity(doc)
             /\ done.status = Completed
             /\ done = [doc EXCEPT !.endTime = done.endTime, !.duration = done.duration,
                                   !.intensity = done.intensity, !.status = done.status]
             /\ resp'.data = done]_vars

\* A record with one completed set, completed 125 s after its start
C11_Witness ==
  /\ resp.op = "completeWorkout"
  /\ workouts[1].status = Completed
  /\ workouts[1].endTime - workouts[1].startTime = 125
  /\ workouts[1].duration = 2
  /\ workouts[1].intensity = 80
  /\ Len(workouts[1].exercises) = 1

\* C12: once a record is completed, no operation changes its exercises,
\* sets, endTime, duration or intensity any more.
C12_CompletedIsImmutable ==
  [][workouts[1].status = Completed
       => /\ workouts'[1].exercises = workouts[1].exercises
          /\ workouts'[1].endTime = workouts[1].endTime
          /\ workouts'[1].duration = workouts[1].duration
          /\ workouts'[1].intensity = workouts[1].intensity]_vars

\* C13: on a completed record addExercise, addSet, completeSet and removeSet
\* with valid arguments are not rejected; they apply their change to the
\* exercises and leave status, endTime, duration and the stored intensity
\* (and every other field) as they were.
C13_MutatorsOnCompleted ==
  [][workouts[1].status = Completed
       => LET doc == workouts[1]
              done == workouts'[1]
              ei == resp'.req.exerciseIndex + 1
          IN /\ \A e \in ExerciseIds : addExercise(doc, e).ok
             /\ \A i \in InRangeExercises(doc) :
                  /\ addSet(doc, i, 50, 10).ok
                  /\ \A j \in InRangeSets(doc, i) :
                       completeSet(doc, i, j, now).ok /\ removeSet(doc, i, j).ok
             /\ (\E op \in {"addExercise", "addSet", "completeSet", "removeSet"} : DocCall(op))
                  => done = [doc EXCEPT !.exercises = done.exercises]
             /\ DocCall("addExercise")
                  => done.exercises = Append(doc.exercises, NewLog(resp'.req.exerciseId, << >>))
             /\ DocCall("addSet")
                  => done.exercises = [doc.exercises EXCEPT ![ei].sets =
                       Append(@, NewSet(Len(@) + 1, resp'.req.weight, resp'.req.reps,
                                        FALSE, Undefined))]
             /\ DocCall("completeSet")
                  => done.exercises = [doc.exercises EXCEPT ![ei].sets[resp'.req.setIndex + 1] =
                       [@ EXCEPT !.completed = TRUE, !.completedAt = now]]
             /\ DocCall("removeSet")
                  => /\ Len(done.exercises[ei].sets) = Len(doc.exercises[ei].sets) - 1
                     /\ \A i \in 1..Len(doc.exercises) :
                          i # ei => done.exercises[i] = doc.exercises[i]]_vars

\* A set was added to a completed record: the stored intensity is no longer
\* the one calculateIntensity gives
C13_Witness ==
  /\ resp.op = "addSet"
  /\ resp.kind = "record"
  /\ workouts[1].status = Completed
  /\ workouts[1].intensity = 80
  /\ calculateIntensity(workouts[1]) # workouts[1].intensity

C15_CompleteSetIdempotent ==
  [][LET doc == workouts[1]
     IN /\ \A i \in InRangeExercises(doc) :
             \A j \in InRangeSets(doc, i) : completeSet(doc, i, j, now).ok
        /\ DocCall("completeSet")
             => LET ei == resp'.req.exerciseIndex + 1
                    si == resp'.req.setIndex + 1
                IN /\ workouts'[1].exercises[ei].sets[si].completed
                   /\ workouts'[1].exercises[ei].sets[si].completedAt = now
                   /\ workouts'[1] = [doc EXCEPT !.exercises[ei].sets[si] =
                        [@ EXCEPT !.completed = TRUE, !.completedAt = now]]]_vars

\* The only set of a record was completed before the record was (the stored
\* intensity counts it) and again afterwards, at a later time
C15_Witness ==
  /\ resp.op = "completeSet"
  /\ resp.kind = "record"
  /\ workouts[1].status = Completed
  /\ workouts[1].intensity = 80
  /\ Len(workouts[1].exercises) = 1
  /\ Len(workouts[1].exercises[1].sets) = 1
  /\ workouts[1].exercises[1].sets[1].completedAt > workouts[1].endTime

(***************************************************************************)
(* Claims about the answers of the sub-resource handlers, under Spec       *)
(***************************************************************************)
SetOps == {"addSet", "completeSet", "removeSet"}

\* The arguments a of a set mutation op that the document method rejects
RejectedArgs(op, doc, a) ==
  \/ a.exerciseIndex \notin InRangeExercises(doc)
  \/ op \in {"completeSet", "removeSet"} /\ a.setIndex \notin InRangeSets(doc, a.exerciseIndex)
  \/ op = "addSet" /\ (a.weight < 0 \/ a.reps < 1)

\* C16: an addSet, completeSet or removeSet of the owner with an
\* exerciseIndex or a setIndex out of range, or an addSet with weight < 0 or
\* reps < 1, is answered 400 without data and leaves every stored record as
\* it was.
C16_RejectedMutationChangesNothing ==
  [][\A id \in DOMAIN workouts :
       (/\ RequestTo(id, SetOps)
        /\ resp'.req.args # << >>
        /\ RejectedArgs(resp'.op, workouts[id], resp'.req.args))
         => /\ resp'.status = 400
            /\ resp'.kind = "none"
            /\ workouts' = workouts]_vars

\* The owner asked for a set of negative weight in an existing log
C16_Witness ==
  /\ resp.op = "addSet"
  /\ resp.status = 400
  /\ resp.req.args # << >>
  /\ resp.req.args.exerciseIndex = 0
  /\ resp.req.args.weight < 0
  /\ resp.req.args.reps >= 1
  /\ resp.req.id \in DOMAIN workouts
  /\ workouts[resp.req.id].exercises # << >>
  /\ workouts[resp.req.id].exercises[1].sets = << >>

\* C17: a request of any by-id operation (fetch, update, delete, addExercise,
\* addSet, completeSet, removeSet, completeWorkout) that carries a username
\* and its parameters and addresses an id no record has is answered 404.
C17_UnresolvedIdIs404 ==
  [][(/\ now' = now
      /\ resp'.op \in ByIdOps
      /\ resp' # resp
      /\ resp'.req.id \notin DOMAIN workouts
      /\ resp'.req.username # ""
      /\ resp'.req.params)
       => resp'.status = 404]_vars

\* C19: DELETE /workouts/:id/sets by the owner with exerciseIndex and
\* setIndex in range is answered 200 with the updated record, in which that
\* set is gone and the remaining sets of the log are numbered 1..N.
C19_DeleteSetSucceeds ==
  [][\A id \in DOMAIN workouts :
       (/\ RequestTo(id, {"removeSet"})
        /\ resp'.req.args # << >>
        /\ ~RejectedArgs("removeSet", workouts[id], resp'.req.args))
         => LET ei == resp'.req.args.exerciseIndex + 1
                si == resp'.req.args.setIndex + 1
                old == workouts[id].exercises[ei].sets
            IN /\ resp'.status = 200
               /\ resp'.kind = "record"
               /\ resp'.data = workouts'[id]
               /\ Len(workouts'[id].exercises[ei].sets) = Len(old) - 1
               /\ \A k \in 1..(Len(old) - 1) :
                    /\ workouts'[id].exercises[ei].sets[k].setNumber = k
                    /\ SetContent(workouts'[id].exercises[ei].sets[k])
                         = SetContent(old[IF k < si THEN k ELSE k + 1])]_vars

(***************************************************************************)
(* SpecScenario: on a newly created record, the calls addExercise(e),      *)
(* addSet(0, 50, 10), completeSet(0, 0) and completeWorkout in this order, *)
(* for either exercise and with the clock moving freely between the calls. *)
(* resp.op tells which call was the last one.                              *)
(***************************************************************************)
ScenarioAddExercise == resp.op = "none" /\ ClockAddExercise

ScenarioAddSet ==
  /\ resp.op = "addExercise"
  /\ ClockAddSet
  /\ resp'.req = [exerciseIndex |-> 0, weight |-> 50, reps |-> 10]

ScenarioCompleteSet ==
  /\ resp.op = "addSet"
  /\ DocCompleteSet
  /\ resp'.req = [exerciseIndex |-> 0, setIndex |-> 0]

ScenarioCompleteWorkout == resp.op = "completeSet" /\ DocCompleteWorkout

ScenarioNext ==
  \/ ClockTick
  \/ ScenarioAddExercise
  \/ ScenarioAddSet
  \/ ScenarioCompleteSet
  \/ ScenarioCompleteWorkout

SpecScenario == ClockInit /\ [][ScenarioNext]_vars

\* C18: after addExercise(e), addSet(0, 50, 10), completeSet(0, 0) and
\* completeWorkout on a new record, the record is completed, its first set
\* has setNumber 1, weight 50, reps 10 and completed TRUE, and its intensity
\* is 8.0.
C18_ScenarioResult ==
  resp.op = "completeWorkout"
    => /\ resp.kind = "record"
       /\ resp.data = workouts[1]
       /\ workouts[1].status = Completed
       /\ Len(workouts[1].exercises) = 1
       /\ Len(workouts[1].exercises[1].sets) = 1
       /\ workouts[1].exercises[1].sets[1].setNumber = 1
       /\ workouts[1].exercises[1].sets[1].weight = 50
       /\ workouts[1].exercises[1].sets[1].reps = 10
       /\ workouts[1].exercises[1].sets[1].completed
       /\ workouts[1].intensity # Undefined
       /\ workouts[1].intensity = 80

\* The four calls were made, the last one 125 s after the record's creation
C18_Witness ==
  /\ resp.op = "completeWorkout"
  /\ resp.kind = "record"
  /\ workouts[1].exercises[1].exercise = "e2"
  /\ workouts[1].exercises[1].sets[1].completedAt = ClockStart + 95
  /\ workouts[1].endTime = ClockStart + MaxElapsed
  /\ workouts[1].intensity = 80

(***************************************************************************)
(* SpecRace: two service calls on one record whose steps interleave.  A    *)
(* service mutator awaits three times: getWorkoutById loads the document,  *)
(* the document method changes the loaded copy and awaits save(), and      *)
(* getWorkoutById reads the record again for the answer.  save() does not  *)
(* write the document back whole: it writes the paths the call changed,    *)
(* and guards writes to array positions with the version key of the        *)
(* document schema (workoutSchema sets no versionKey or                     *)
(* optimisticConcurrency option, so the default __v applies):              *)
(*   a list grown at its end is $push'ed; a top-level list (exercises)     *)
(*     increments the version, a nested list (exercises.N.sets) also       *)
(*     requires the version loaded;                                        *)
(*   a list changed otherwise (splice) is $set whole, requires the version *)
(*     loaded and increments it;                                           *)
(*   a field of a list element is $set under its index and requires the    *)
(*     version loaded;                                                     *)
(*   a top-level field is $set with no version condition.                  *)
(* A save that requires the version loaded and finds another one throws    *)
(* a VersionError and writes nothing.  The version itself is not kept in   *)
(* the record: each call in flight carries `behind`, which is TRUE exactly *)
(* when the version it loaded is older than the stored one.                *)
(***************************************************************************)
CallIds == {"first", "second"}

IdleCall == [op |-> "none", args |-> << >>, pc |-> "idle", doc |-> << >>,
             behind |-> FALSE, ok |-> FALSE]

\* How save() writes the change of one list of sets
SetsDelta(before, after) ==
  IF after = before THEN "none"
  ELSE IF Len(after) > Len(before) /\ SubSeq(after, 1, Len(before)) = before THEN "push"
  ELSE IF Len(after) = Len(before) THEN "fields"
  ELSE "array"

DeltaKinds(loaded, changed) ==
  {SetsDelta(loaded.exercises[i].sets, changed.exercises[i].sets) :
     i \in 1..Len(loaded.exercises)}

\* A save that requires the version loaded for changes in place only, not
\* for a $push to a list of sets
VersionWhereInPlace(loaded, changed) ==
  DeltaKinds(loaded, changed) \cap {"fields", "array"} # {}

\* The save requires the version loaded / increments the version
VersionWhere(loaded, changed) ==
  DeltaKinds(loaded, changed) \cap {"push", "fields", "array"} # {}

VersionInc(loaded, changed) ==
  \/ Len(changed.exercises) > Len(loaded.exercises)
  \/ DeltaKinds(loaded, changed) \cap {"push", "array"} # {}

\* $set of the fields of one set that the call changed
WriteSet(stored, before, after) ==
  [stored EXCEPT
     !.setNumber = IF after.setNumber # before.setNumber THEN after.setNumber ELSE @,
     !.weight = IF after.weight # before.weight THEN after.weight ELSE @,
     !.reps = IF after.reps # before.reps THEN after.reps ELSE @,
     !.completed = IF after.completed # before.completed THEN after.completed ELSE @,
     !.completedAt = IF after.completedAt # before.completedAt THEN after.completedAt ELSE @]

WriteSets(stored, before, after) ==
  CASE SetsDelta(before, after) = "none" -> stored
    [] SetsDelta(before, after) = "push" ->
         stored \o SubSeq(after, Len(before) + 1, Len(after))
    [] SetsDelta(before, after) = "fields" ->
         [j \in 1..Len(stored) |->
            IF j <= Len(after) THEN WriteSet(stored[j], before[j], after[j]) ELSE stored[j]]
    [] SetsDelta(before, after) = "array" -> after

\* The stored document after the update that save() sends
Write(stored, loaded, changed) ==
  [stored EXCEPT
     !.endTime = IF changed.endTime # loaded.endTime THEN changed.endTime ELSE @,
     !.duration = IF changed.duration # loaded.duration THEN changed.duration ELSE @,
     !.intensity = IF changed.intensity # loaded.intensity THEN changed.intensity ELSE @,
     !.status = IF changed.status # loaded.status THEN changed.status ELSE @,
     !.exercises =
        [i \in 1..Len(@) |->
           IF i <= Len(loaded.exercises)
           THEN [@[i] EXCEPT !.sets = WriteSets(@, loaded.exercises[i].sets,
                                                changed.exercises[i].sets)]
           ELSE @[i]]
        \o SubSeq(changed.exercises, Len(loaded.exercises) + 1, Len(changed.exercises))]

\* save() writing every change with no version condition
saveUnversioned(stored, loaded, changed, behind) ==
  [ok |-> TRUE, doc |-> Write(stored, loaded, changed), inc |-> VersionInc(loaded, changed)]

\* save() of a loaded document the method has changed, against the record
\* as stored now
save(stored, loaded, changed, behind) ==
  IF VersionWhere(loaded, changed) /\ behind
  THEN [ok |-> FALSE, doc |-> stored, inc |-> FALSE]
  ELSE [ok |-> TRUE, doc |-> Write(stored, loaded, changed),
        inc |-> VersionInc(loaded, changed)]

\* The document method of a call, on the copy the call loaded
RaceMethod(op, args, doc, t) ==
  CASE op = "addExercise" -> addExercise(doc, args.exerciseId)
    [] op = "addSet" -> addSet(doc, args.exerciseIndex, args.weight, args.reps)
    [] op = "completeSet" -> completeSet(doc, args.exerciseIndex, args.setIndex, t)
    [] op = "removeSet" -> removeSet(doc, args.exerciseIndex, args.setIndex)
    [] op = "completeWorkout" -> completeWorkout(doc, t)

RaceDoc ==
  [NewDoc("alice", ClockStart, ClockStart) EXCEPT
     !.exercises = <<NewLog("e1", <<NewSet(1, 50, 10, FALSE, Undefined),
                                    NewSet(2, 50, 10, FALSE, Undefined)>>)>>]

RaceSetIndexes == 0..Len(RaceDoc.exercises[1].sets)

RaceInit ==
  /\ workouts = (1 :> RaceDoc)
  /\ nextId = 2
  /\ now = ClockStart
  /\ resp = NoResp
  /\ calls = [c \in CallIds |-> IdleCall]
  /\ catalog = NoCatalog
  /\ database = NewDatabase

\* The call's first await: getWorkoutById(workoutId)
Begin(c, op, args) ==
  LET found == WorkoutService_getWorkoutById(workouts, 1)
  IN /\ found.ok
     /\ calls' = [calls EXCEPT ![c] = [op |-> op, args |-> args, pc |-> "loaded",
                                        doc |-> found.doc, behind |-> FALSE, ok |-> FALSE]]

RaceLoad(c) ==
  /\ calls[c].pc = "idle"
  /\ \/ Begin(c, "addExercise", [exerciseId |-> "e2"])
     \/ Begin(c, "addSet", [exerciseIndex |-> 0, weight |-> 60, reps |-> 10])
     \/ \E setIndex \in RaceSetIndexes :
          Begin(c, "completeSet", [exerciseIndex |-> 0, setIndex |-> setIndex])
     \/ \E setIndex \in RaceSetIndexes :
          Begin(c, "removeSet", [exerciseIndex |-> 0, setIndex |-> setIndex])
     \/ Begin(c, "completeWorkout", << >>)
  /\ UNCHANGED <<workouts, nextId, now, resp, catalog, database>>

\* The call's second await: the document method and its save()
RaceSave(c) ==
  /\ calls[c].pc = "loaded"
  /\ LET call == calls[c]
         r == RaceMethod(call.op, call.args, call.doc, now)
         w == save(workouts[1], call.doc, r.doc, call.behind)
     IN IF r.ok /\ w.ok
        THEN /\ workouts' = [workouts EXCEPT ![1] = w.doc]
             /\ calls' = [d \in CallIds |->
                            IF d = c THEN [call EXCEPT !.pc = "saved"]
                            ELSE IF w.inc /\ calls[d].pc = "loaded"
                                 THEN [calls[d] EXCEPT !.behind = TRUE]
                                 ELSE calls[d]]
             /\ UNCHANGED resp
        ELSE /\ calls' = [calls EXCEPT ![c].pc = "done"]
             /\ resp' = Resp(call.op, call.args, 0, "thrown", << >>)
             /\ UNCHANGED workouts
  /\ UNCHANGED <<nextId, now, catalog, database>>

\* The call's third await: getWorkoutById(workoutId) for the answer
RaceAnswer(c) ==
  /\ calls[c].pc = "saved"
  /\ LET found == WorkoutService_getWorkoutById(workouts, 1)
     IN /\ calls' = [calls EXCEPT ![c].pc = "done", ![c].ok = found.ok]
        /\ resp' = IF found.ok
                   THEN Resp(calls[c].op, calls[c].args, 0, "record", found.doc)
                   ELSE Resp(calls[c].op, calls[c].args, 0, "thrown", << >>)
  /\ UNCHANGED <<workouts, nextId, now, catalog, database>>

RaceNext == \E c \in CallIds : RaceLoad(c) \/ RaceSave(c) \/ RaceAnswer(c)

SpecRace == RaceInit /\ [][RaceNext]_vars

\* Both calls have returned, and each had loaded the record before the
\* other wrote it
Overlapped ==
  \A c \in CallIds : calls[c].pc = "done" /\ calls[c].doc = RaceDoc

\* The document method of the call accepts its arguments
Accepted(c) == RaceMethod(calls[c].op, calls[c].args, calls[c].doc, now).ok

\* The calls are an op1 and an op2
Pair(op1, op2) ==
  \E c, d \in CallIds : c # d /\ calls[c].op = op1 /\ calls[d].op = op2

\* The change of call c alone, on the record as both calls loaded it
Alone(c) == RaceMethod(calls[c].op, calls[c].args, RaceDoc, now).doc

WithIntensity(found) == {k \in 1..Len(found) : found[k].intensity # Undefined}

\* C22: the average intensity of getWorkoutStats is the mean of the
\* intensity over the records of the window that have one (to one
\* decimal), and 0 when the window has no such record.
C22_AverageIntensity ==
  [][(resp'.op = "getWorkoutStats" /\ resp'.status = 200)
       => LET found == WorkoutService_getRecentWorkouts(workouts', resp'.req.username,
                                                        resp'.req.days, now')
              sum == SumSeq([k \in 1..Len(found) |->
                               IF k \in WithIntensity(found) THEN found[k].intensity ELSE 0])
              count == Cardinality(WithIntensity(found))
          IN resp'.data.averageIntensity
               = IF count = 0 THEN 0 ELSE MathRound(sum, count)]_vars

\* The user's records of the window that log the exercise
Qualifying(db, username, exerciseId, days, t) ==
  {id \in DOMAIN db :
     /\ db[id].username = username
     /\ db[id].date >= t - days * SecondsPerDay
     /\ \E k \in 1..Len(db[id].exercises) : db[id].exercises[k].exercise = exerciseId}

\* C23: the overview over 7 days of a user with no record answers
\* summary.totalWorkouts = 0 and a dailySeries of 7 entries with workouts = 0
\* each, and average duration and intensity that are numbers (no division
\* by zero).
C23_EmptyOverview ==
  [][(/\ resp'.op = "getWorkoutOverview"
      /\ resp'.req.username # ""
      /\ resp'.req.days = BriefDays
      /\ OwnRecords(workouts', resp'.req.username) = << >>)
       => /\ resp'.kind = "answer"
          /\ resp'.data.summary.totalWorkouts = 0
          /\ Len(resp'.data.dailySeries) = BriefDays
          /\ \A k \in 1..BriefDays : resp'.data.dailySeries[k].workouts = 0
          /\ resp'.data.summary.avgDuration \in Nat
          /\ resp'.data.summary.avgIntensity \in Nat]_vars

\* C24: the exercise history of fewer than 6 qualifying sessions answers a
\* summary whose volumeChangeRate is a number (the fallback), not an error.
C24_ChangeRateFallback ==
  [][(/\ resp'.op = "getExerciseHistory"
      /\ resp'.req.username # ""
      /\ Cardinality(Qualifying(workouts', resp'.req.username, resp'.req.exerciseId,
                                IF resp'.req.days = Undefined THEN DefaultHistoryDays
                                ELSE resp'.req.days, now')) < 6)
       => /\ resp'.status = 200
          /\ resp'.kind = "answer"
          /\ resp'.data.summary.volumeChangeRate \in Int]_vars

(***************************************************************************)
(* SpecOrder: any sequence of the five mutators on a record whose first    *)
(* log holds sets of different weights, so that the order of the sets      *)
(* shows.                                                                  *)
(***************************************************************************)
OrderWeights == {50, 60}

OrderInit ==
  /\ \E n \in 0..MaxSets :
       \E ws \in [1..n -> OrderWeights] :
         workouts = (1 :> [NewDoc("alice", 0, 0) EXCEPT
                            !.exercises = <<NewLog("e1", [k \in 1..n |->
                                              NewSet(k, ws[k], 10, FALSE, Undefined)])>>])
  /\ nextId = 2
  /\ now = 0
  /\ resp = NoResp
  /\ calls = NoCalls
  /\ catalog = NoCatalog
  /\ database = NewDatabase

SpecOrder == OrderInit /\ [][DocNext]_vars

\* The sets of a log as the reader tells them apart, in their order
SetKeys(sets) == [k \in 1..Len(sets) |-> <<sets[k].weight, sets[k].reps>>]

\* Two lists that differ by what one call can do, an element put in or an
\* element taken out, with the other elements in the order they had
OrderKept(old, new) ==
  \/ new = old
  \/ \E p \in 1..Len(new) : RemoveAt(new, p) = old
  \/ \E p \in 1..Len(old) : RemoveAt(old, p) = new

MongooseConnection == "mongoose"

\* connect() up to its await
Database_connect(c) ==
  /\ calls[c].pc = "idle"
  /\ IF database.isConnected /\ database.connection # Null
     THEN /\ resp' = Resp("connect", [call |-> c], 0, "connection", database.connection)
          /\ UNCHANGED <<calls, database>>
     ELSE /\ database.opened < MaxOpened
          /\ calls' = [calls EXCEPT ![c] = [IdleCall EXCEPT !.op = "connect",
                                                            !.pc = "awaiting"]]
          /\ database' = [database EXCEPT !.opened = @ + 1]
          /\ UNCHANGED resp
  /\ UNCHANGED <<workouts, nextId, now, catalog>>

\* mongoose.connect resolves: connection and isConnected are set
Database_connectResolved(c) ==
  /\ calls[c].pc = "awaiting"
  /\ calls[c].op = "connect"
  /\ database' = [database EXCEPT !.connection = MongooseConnection, !.isConnected = TRUE]
  /\ calls' = [calls EXCEPT ![c] = IdleCall]
  /\ resp' = Resp("connect", [call |-> c], 0, "connection", MongooseConnection)
  /\ UNCHANGED <<workouts, nextId, now, catalog>>

\* mongoose.connect rejects: the catch block clears isConnected and rethrows
Database_connectRejected(c) ==
  /\ calls[c].pc = "awaiting"
  /\ calls[c].op = "connect"
  /\ database' = [database EXCEPT !.isConnected = FALSE, !.opened = @ - 1]
  /\ calls' = [calls EXCEPT ![c] = IdleCall]
  /\ resp' = Resp("connect", [call |-> c], 0, "thrown", << >>)
  /\ UNCHANGED <<workouts, nextId, now, catalog>>

\* disconnect() up to its await
Database_disconnect(c) ==
  /\ calls[c].pc = "idle"
  /\ IF ~database.isConnected
     THEN /\ resp' = Resp("disconnect", [call |-> c], 0, "none", << >>)
          /\ UNCHANGED calls
     ELSE /\ calls' = [calls EXCEPT ![c] = [IdleCall EXCEPT !.op = "disconnect",
                                                            !.pc = "awaiting"]]
          /\ UNCHANGED resp
  /\ UNCHANGED <<workouts, nextId, now, catalog, database>>

\* mongoose.disconnect resolves: every connection is closed
Database_disconnectResolved(c) ==
  /\ calls[c].pc = "awaiting"
  /\ calls[c].op = "disconnect"
  /\ database' = [database EXCEPT !.isConnected = FALSE, !.connection = Null,
                                  !.opened = 0]
  /\ calls' = [calls EXCEPT ![c] = IdleCall]
  /\ resp' = Resp("disconnect", [call |-> c], 0, "none", << >>)
  /\ UNCHANGED <<workouts, nextId, now, catalog>>

\* mongoose.disconnect rejects: the error is rethrown
Database_disconnectRejected(c) ==
  /\ calls[c].pc = "awaiting"
  /\ calls[c].op = "disconnect"
  /\ calls' = [calls EXCEPT ![c] = IdleCall]
  /\ resp' = Resp("disconnect", [call |-> c], 0, "thrown", << >>)
  /\ UNCHANGED <<workouts, nextId, now, catalog, database>>

DatabaseInit ==
  /\ workouts = << >>
  /\ nextId = 1
  /\ now = 0
  /\ resp = NoResp
  /\ calls = [c \in CallIds |-> IdleCall]
  /\ catalog = NoCatalog
  /\ database = NewDatabase

DatabaseNext ==
  \E c \in CallIds :
    \/ Database_connect(c)
    \/ Database_connectResolved(c)
    \/ Database_connectRejected(c)
    \/ Database_disconnect(c)
    \/ Database_disconnectResolved(c)
    \/ Database_disconnectRejected(c)

SpecDatabase == DatabaseInit /\ [][DatabaseNext]_vars

\* C26: the database module keeps a single connection: at most one
\* connection is opened, also by connect() calls that overlap, and
\* isConnected is true exactly when connection is non-null.
C26_SingleConnection ==
  /\ database.opened <= 1
  /\ database.isConnected <=> database.connection # Null

(***************************************************************************)
(* SpecCatalog: the Exercise collection under createExercise,              *)
(* updateExercise and two createDefaultExercises calls whose steps         *)
(* interleave.  The enum values are written in English (chest for the      *)
(* first bodyPart value, and so on), and defaultExercises is cut to two of *)
(* its 24 entries.  The name path is declared unique: the collection has a *)
(* unique index on name, which rejects an insert or update that would      *)
(* store a name another entry holds.  The name path is trimmed before it   *)
(* is validated and stored.  The collection holds at most MaxCatalog       *)
(* entries.                                                                *)
(***************************************************************************)
BodyPartEnum == {"chest", "back", "shoulders", "legs", "arms", "core", "full body"}

DifficultyEnum == {"beginner", "intermediate", "advanced"}

defaultExercises ==
  <<[name |-> "bench press", bodyPart |-> "chest", difficulty |-> "intermediate"],
    [name |-> "pull-up", bodyPart |-> "back", difficulty |-> "advanced"]>>

\* Names as a request writes them, and what trim makes of them
RawNames == {"bench press", " bench press ", "row", "  "}

Trim(name) ==
  CASE name = " bench press " -> "bench press"
    [] name = "  " -> ""
    [] OTHER -> name

\* The validators of exerciseSchema on the paths of an entry
ValidExercise(e) ==
  /\ e.name # ""
  /\ e.bodyPart \in BodyPartEnum
  /\ e.difficulty \in DifficultyEnum

\* A collection with no index on name
UniqueIndexAbsent(cat, name, self) == TRUE

\* The unique index on name accepts the name for the entry at position self
\* (0 for a new entry)
UniqueIndexAllows(cat, name, self) ==
  \A i \in 1..Len(cat) : i # self => cat[i].name # name

\* findOne({name}) that finds nothing
findOneNothing(cat, name) == 0

\* Exercise.findOne({name}): the position of the first entry of that name,
\* or 0
findOne(cat, name) ==
  IF \E i \in 1..Len(cat) : cat[i].name = name
  THEN CHOOSE i \in 1..Len(cat) :
         /\ cat[i].name = name
         /\ \A o \in 1..Len(cat) : cat[o].name = name => i <= o
  ELSE 0

\* new Exercise(exerciseData).save()
ExerciseService_createExercise(cat, exerciseData) ==
  LET e == [name |-> Trim(exerciseData.name), bodyPart |-> exerciseData.bodyPart,
            difficulty |-> exerciseData.difficulty,
            isDefault |-> IF Has(exerciseData, "isDefault") THEN exerciseData.isDefault
                          ELSE FALSE]
  IN IF ValidExercise(e) /\ UniqueIndexAllows(cat, e.name, 0)
     THEN [ok |-> TRUE, cat |-> Append(cat, e), doc |-> e]
     ELSE [ok |-> FALSE, cat |-> cat, doc |-> << >>]

\* findByIdAndUpdate(exerciseId, updateData, {new, runValidators})
ExerciseService_updateExercise(cat, exerciseId, updateData) ==
  IF exerciseId \notin 1..Len(cat) THEN [ok |-> FALSE, cat |-> cat, doc |-> << >>]
  ELSE LET old == cat[exerciseId]
           e == [name |-> IF Has(updateData, "name") THEN Trim(updateData.name)
                          ELSE old.name,
                 bodyPart |-> IF Has(updateData, "bodyPart") THEN updateData.bodyPart
                              ELSE old.bodyPart,
                 difficulty |-> IF Has(updateData, "difficulty")
                                THEN updateData.difficulty ELSE old.difficulty,
                 isDefault |-> IF Has(updateData, "isDefault") THEN updateData.isDefault
                               ELSE old.isDefault]
       IN IF ValidExercise(e) /\ UniqueIndexAllows(cat, e.name, exerciseId)
          THEN [ok |-> TRUE, cat |-> [cat EXCEPT ![exerciseId] = e], doc |-> e]
          ELSE [ok |-> FALSE, cat |-> cat, doc |-> << >>]

CreateExerciseBodies ==
  {[name |-> n, bodyPart |-> "back", difficulty |-> "beginner"] : n \in RawNames}
    \cup {[name |-> "row", bodyPart |-> "tail", difficulty |-> "beginner"]}

UpdateExerciseBodies ==
  {[name |-> n] : n \in RawNames}
    \cup {[isDefault |-> TRUE], [bodyPart |-> "tail"]}

CatalogAnswer(op, req, r) ==
  resp' = IF r.ok THEN Resp(op, req, 0, "record", r.doc)
          ELSE Resp(op, req, 0, "thrown", << >>)

ExerciseController_createExercise ==
  /\ Len(catalog) < MaxCatalog
  /\ \E exerciseData \in CreateExerciseBodies :
       LET r == ExerciseService_createExercise(catalog, exerciseData)
       IN /\ catalog' = r.cat
          /\ CatalogAnswer("createExercise", [name |-> exerciseData.name], r)
  /\ UNCHANGED <<workouts, nextId, now, calls, database>>

ExerciseController_updateExercise ==
  /\ \E exerciseId \in 1..(Len(catalog) + 1), updateData \in UpdateExerciseBodies :
       LET r == ExerciseService_updateExercise(catalog, exerciseId, updateData)
       IN /\ catalog' = r.cat
          /\ CatalogAnswer("updateExercise", [id |-> exerciseId], r)
  /\ UNCHANGED <<workouts, nextId, now, calls, database>>

\* A createDefaultExercises call at the entry `at` of defaultExercises
SeedCall(pc, at, created, ok) ==
  [op |-> "createDefaultExercises", args |-> [at |-> at], pc |-> pc, doc |-> created,
   behind |-> FALSE, ok |-> ok]

\* The end of the loop body: the next entry, or the return of the list
SeedAdvance(c, created) ==
  IF calls[c].args.at < Len(defaultExercises)
  THEN /\ calls' = [calls EXCEPT ![c] = SeedCall("find", calls[c].args.at + 1, created, FALSE)]
       /\ UNCHANGED resp
  ELSE /\ calls' = [calls EXCEPT ![c] = SeedCall("done", calls[c].args.at, created, TRUE)]
       /\ resp' = Resp("createDefaultExercises", [call |-> c], 0, "answer", created)

\* The call, up to its first await
ExerciseService_createDefaultExercises(c) ==
  /\ calls[c].pc = "idle"
  /\ calls' = [calls EXCEPT ![c] = SeedCall("find", 1, << >>, FALSE)]
  /\ UNCHANGED <<workouts, nextId, now, resp, catalog, database>>

\* await Exercise.findOne({name}) and the test of its result
SeedFind(c) ==
  /\ calls[c].pc = "find"
  /\ IF findOne(catalog, defaultExercises[calls[c].args.at].name) # 0
     THEN SeedAdvance(c, calls[c].doc)
     ELSE /\ calls' = [calls EXCEPT ![c].pc = "save"]
          /\ UNCHANGED resp
  /\ UNCHANGED <<workouts, nextId, now, catalog, database>>

\* await exercise.save() of {...exerciseData, isDefault: true}; an error
\* leaves the loop and the call throws
SeedSave(c) ==
  /\ calls[c].pc = "save"
  /\ Len(catalog) < MaxCatalog
  /\ LET exerciseData == defaultExercises[calls[c].args.at]
         r == ExerciseService_createExercise(
                catalog, [name |-> exerciseData.name, bodyPart |-> exerciseData.bodyPart,
                          difficulty |-> exerciseData.difficulty, isDefault |-> TRUE])
     IN IF r.ok
        THEN /\ catalog' = r.cat
             /\ SeedAdvance(c, Append(calls[c].doc, r.doc))
        ELSE /\ calls' = [calls EXCEPT ![c].pc = "done"]
             /\ resp' = Resp("createDefaultExercises", [call |-> c], 0, "thrown", << >>)
             /\ UNCHANGED catalog
  /\ UNCHANGED <<workouts, nextId, now, database>>

\* The call has returned; the caller may call again
SeedReturn(c) ==
  /\ calls[c].pc = "done"
  /\ calls' = [calls EXCEPT ![c] = IdleCall]
  /\ UNCHANGED <<workouts, nextId, now, resp, catalog, database>>

CatalogInit ==
  /\ workouts = << >>
  /\ nextId = 1
  /\ now = 0
  /\ resp = NoResp
  /\ calls = [c \in CallIds |-> IdleCall]
  /\ catalog = NoCatalog
  /\ database = NewDatabase

CatalogNext ==
  \/ ExerciseController_createExercise
  \/ ExerciseController_updateExercise
  \/ \E c \in CallIds :
       \/ ExerciseService_createDefaultExercises(c)
       \/ SeedFind(c)
       \/ SeedSave(c)
       \/ SeedReturn(c)

SpecCatalog == CatalogInit /\ [][CatalogNext]_vars

\* C21: no two entries of the catalog have the same name, after any
\* sequence of createExercise, updateExercise and createDefaultExercises,
\* two seed calls that overlap included.
C21_NamesUnique ==
  \A i, j \in 1..Len(catalog) : catalog[i].name = catalog[j].name => i = j

\* Two seed calls overlapped on the same name: both looked for it before
\* either saved it, one stored it and the other was rejected
C21_Witness ==
  /\ calls["first"].pc = "done"
  /\ ~calls["first"].ok
  /\ calls["first"].args.at = 1
  /\ calls["second"].op = "createDefaultExercises"
  /\ Len(calls["second"].doc) >= 1
  /\ calls["second"].doc[1].name = defaultExercises[1].name
  /\ \E i \in 1..Len(catalog) : catalog[i].name = defaultExercises[1].name

\* The catalog holds an entry of that name
Exists(name) == \E i \in 1..Len(catalog) : catalog[i].name = name

\* C27: createDefaultExercises creates nothing for a default name that
\* exists already, so a call made when every default name exists creates
\* nothing and returns the empty list; and no step of a call changes or
\* removes an entry of the catalog: an entry that has a default name keeps
\* its own isDefault, bodyPart and difficulty.
C27_SeedIdempotent ==
  [][\A c \in CallIds :
       calls'[c] # calls[c]
         => /\ Len(catalog') >= Len(catalog)
            /\ \A i \in 1..Len(catalog) : catalog'[i] = catalog[i]
            /\ (calls[c].pc = "find" /\ Exists(defaultExercises[calls[c].args.at].name))
                 => /\ catalog' = catalog
                    /\ calls'[c].pc \in {"find", "done"}
                    /\ calls'[c].doc = calls[c].doc
            /\ (calls[c].pc = "find" /\ calls'[c].pc = "done")
                 => /\ calls'[c].ok
                    /\ resp'.kind = "answer"
                    /\ resp'.data = calls[c].doc]_vars

\* A call has returned the empty list; the bench press that createExercise
\* had stored is still no default and still of the back
C27_Witness ==
  /\ calls["first"].pc = "done"
  /\ calls["first"].ok
  /\ calls["first"].doc = << >>
  /\ \A k \in 1..Len(defaultExercises) : Exists(defaultExercises[k].name)
  /\ \E i \in 1..Len(catalog) :
       /\ catalog[i].name = defaultExercises[1].name
       /\ ~catalog[i].isDefault
       /\ catalog[i].bodyPart = "back"

C29_RemoveSetFrame ==
  [][(resp'.op = "removeSet" /\ resp'.kind = "record")
       => LET old == workouts[1]
              new == workouts'[1]
              i == resp'.req.exerciseIndex + 1
              j == resp'.req.setIndex + 1
          IN /\ Len(new.exercises) = Len(old.exercises)
             /\ \A o \in 1..Len(old.exercises) : o # i => new.exercises[o] = old.exercises[o]
             /\ new.exercises[i].exercise = old.exercises[i].exercise
             /\ [k \in 1..Len(new.exercises[i].sets) |-> SetContent(new.exercises[i].sets[k])]
                  = RemoveAt([k \in 1..Len(old.exercises[i].sets) |->
                                SetContent(old.exercises[i].sets[k])], j)
             /\ new.username = old.username
             /\ new.date = old.date
             /\ new.startTime = old.startTime
             /\ new.endTime = old.endTime
             /\ new.duration = old.duration
             /\ new.intensity = old.intensity
             /\ new.status = old.status]_vars

\* removeSet took the first of two sets from the first log of a completed
\* record whose second log holds a set
C29_Witness ==
  /\ resp.op = "removeSet"
  /\ resp.kind = "record"
  /\ resp.req = [exerciseIndex |-> 0, setIndex |-> 0]
  /\ workouts[1].status = Completed
  /\ workouts[1].intensity > 0
  /\ Len(workouts[1].exercises) = 2
  /\ Len(workouts[1].exercises[1].sets) = 1
  /\ workouts[1].exercises[1].sets[1].completed
  /\ Len(workouts[1].exercises[2].sets) = 1

(***************************************************************************)
(* The calendar's detail view of a record (frontend).                      *)
(***************************************************************************)
\* The duration line of the detail view: hidden unless the record is
\* completed with a positive duration, else the two numbers printed before
\* the words for minutes and for seconds
Calendar_duration(workout) ==
  IF workout.status = Completed /\ workout.duration > 0
  THEN [shown |-> TRUE, minutes |-> workout.duration \div 60,
        seconds |-> workout.duration % 60]
  ELSE [shown |-> FALSE, minutes |-> 0, seconds |-> 0]

\* C30: the detail view shows the duration of a completed record as the
\* stored number of minutes: the time displayed for a stored duration d is
\* d minutes.
C30_DurationDisplayed ==
  \A id \in DOMAIN workouts :
    (workouts[id].status = Completed /\ workouts[id].duration > 0)
      => LET line == Calendar_duration(workouts[id])
         IN /\ line.shown
            /\ line.minutes * SecondsPerMinute + line.seconds
                 = workouts[id].duration * SecondsPerMinute

====
